---- MODULE Spec2Model ----
(***************************************************************************)
(* A model of metal_id: the peak extraction and model comparison of        *)
(* calc_map.py and the column resolution, amplitude derivation and scaling *)
(* pipeline of scaling.py.                                                 *)
(*                                                                         *)
(* Text is modelled as sequences of one-character strings, so that the     *)
(* regular expression's character classes, str.split and float() are       *)
(* computed rather than assumed.  Numbers are fixed-point integers with    *)
(* FracDigits decimal places.  File names in the scaling directory are     *)
(* strings holding the stem; every file there has the suffix ".mtz".       *)
(***************************************************************************)
EXTENDS Integers, Sequences, FiniteSets, TLC

VARIABLES
    pc,                 \* position of the single thread of control
    caller,             \* "none" or the function a callee returns to
    \* make_double_diff_map_and_get_peaks
    stdout,             \* result.stdout of the coot run, a sequence of lines
    max_peaks,
    pk_i,               \* number of matches the for loop has consumed
    peak_coords, electron_densities, rmsds,
    pk_ret,             \* what the call produced
    \* are_pdbs_similar
    pdb_1, pdb_2,       \* what read_pdb returns for the two files
    pdb_i,              \* number of coordinate pairs compared
    pdb_ret, pdb_log,
    \* calc_double_diff_maps
    pha_above, pha_below,   \* is_file() of the two anomalous maps
    map_tools,          \* external commands run, in order
    map_files,          \* files written into output_dir
    map_ret, map_log,
    \* find_cols_from_type called on its own
    fc_obj, fc_type, fc_ret,
    \* scale_data
    in_above, in_below, \* the caller's input files
    fs,                 \* the files of scaling_dir
    tool_log,           \* ccp4_command invocations, in order
    mtz_above, mtz_below, obj_above, obj_below,
    col_labs, sc_k, sc_ret, sc_log,
    \* concurrent runs resolving their output directory
    dirs,               \* the directories that exist beside the base name
    run_pc, run_path, run_counter,
    \* view_as_quat called on its own
    vq_p1, vq_p2, vq_ret,
    \* the top-level script
    argv,               \* the command line, as the argument types see it
    dimple_log,         \* run_dimple invocations, in order
    main_ret

peaksVars == <<stdout, max_peaks, pk_i, peak_coords, electron_densities, rmsds, pk_ret>>
pdbVars   == <<pdb_1, pdb_2, pdb_i, pdb_ret, pdb_log>>
mapVars   == <<pha_above, pha_below, map_tools, map_files, map_ret, map_log>>
colsVars  == <<fc_obj, fc_type, fc_ret>>
scaleVars == <<in_above, in_below, fs, tool_log, mtz_above, mtz_below,
               obj_above, obj_below, col_labs, sc_k, sc_ret, sc_log>>
dirVars   == <<dirs, run_pc, run_path, run_counter>>
quatVars  == <<vq_p1, vq_p2, vq_ret>>
mainVars  == <<argv, dimple_log, main_ret>>
extraVars == <<dirVars, quatVars, mainVars>>
vars == <<pc, caller, peaksVars, pdbVars, mapVars, colsVars, scaleVars, extraVars>>

(***************************************************************************)
(* Bounds.                                                                 *)
(***************************************************************************)
MaxLines  == 3      \* lines of tool output
MaxCap    == 2      \* largest --max-peaks tried
FracDigits == 1     \* decimal places kept by the fixed-point numbers
MaxAtoms  == 2      \* atoms per model
MaxCols   == 3      \* columns of a dataset resolved on its own

None == [kind |-> "none"]

(***************************************************************************)
(* Text helpers.                                                           *)
(***************************************************************************)
Digits == {"0", "1", "2", "3", "4", "5", "6", "7", "8", "9"}

DigitVal(c) ==
    CASE c = "0" -> 0 [] c = "1" -> 1 [] c = "2" -> 2 [] c = "3" -> 3
      [] c = "4" -> 4 [] c = "5" -> 5 [] c = "6" -> 6 [] c = "7" -> 7
      [] c = "8" -> 8 [] c = "9" -> 9

Min(a, b) == IF a < b THEN a ELSE b

RECURSIVE Pow10(_)
Pow10(n) == IF n = 0 THEN 1 ELSE 10 * Pow10(n - 1)

AllIn(s, class) == \A i \in 1..Len(s) : s[i] \in class

Count(s, c) == Cardinality({i \in 1..Len(s) : s[i] = c})

\* str.strip() restricted to the blank
RECURSIVE Strip(_)
Strip(s) ==
    IF s = <<>> THEN s
    ELSE IF Head(s) = " " THEN Strip(Tail(s))
    ELSE IF s[Len(s)] = " " THEN Strip(SubSeq(s, 1, Len(s) - 1))
    ELSE s

\* str.split(","): the pieces between the commas, empty pieces included
RECURSIVE Split(_)
Split(s) ==
    IF \A i \in 1..Len(s) : s[i] # ","
    THEN <<s>>
    ELSE LET k == CHOOSE i \in 1..Len(s) :
                      s[i] = "," /\ \A j \in 1..(i - 1) : s[j] # ","
         IN  <<SubSeq(s, 1, k - 1)>> \o Split(SubSeq(s, k + 1, Len(s)))

RECURSIVE DigitsVal(_)
DigitsVal(s) ==
    IF s = <<>> THEN 0 ELSE 10 * DigitsVal(SubSeq(s, 1, Len(s) - 1)) + DigitVal(s[Len(s)])

\* float() on the alphabet the pattern lets through: blanks are stripped, one
\* leading sign, digits with at most one point and at least one digit.
\* Anything else is a ValueError.  The value is in units of 10^-FracDigits.
ParseFloat(tok) ==
    LET s    == Strip(tok)
        neg  == s # <<>> /\ Head(s) = "-"
        m    == IF neg THEN Tail(s) ELSE s
        ok   == /\ AllIn(m, Digits \cup {"."})
                /\ Count(m, ".") <= 1
                /\ \E i \in 1..Len(m) : m[i] \in Digits
        dot  == IF Count(m, ".") = 0 THEN Len(m) + 1
                ELSE CHOOSE i \in 1..Len(m) : m[i] = "."
        ip   == SubSeq(m, 1, dot - 1)
        fp   == SubSeq(m, dot + 1, Min(Len(m), dot + FracDigits))
        mag  == DigitsVal(ip) * Pow10(FracDigits)
                  + DigitsVal(fp) * Pow10(FracDigits - Len(fp))
    IN  IF ok THEN [ok |-> TRUE, v |-> IF neg THEN 0 - mag ELSE mag]
        ELSE [ok |-> FALSE, v |-> 0]

(***************************************************************************)
(* make_double_diff_map_and_get_peaks: the pattern and the loop.           *)
(*                                                                         *)
(* A line of tool output is held by the fields the pattern's literals      *)
(* ("dv:", "n-rmsd:", "xyz = (", ")") cut it into.                         *)
(***************************************************************************)
\* the pattern matches when every field lies in its character class
PatternMatches(line) ==
    /\ line.idx # <<>>  /\ AllIn(line.idx, Digits)
    /\ line.dv # <<>>   /\ AllIn(line.dv, Digits \cup {"."})
    /\ line.rmsd # <<>> /\ AllIn(line.rmsd, Digits \cup {"."})
    /\ line.xyz # <<>>  /\ AllIn(line.xyz, Digits \cup {".", ",", " ", "-"})

\* re.finditer(pattern, result.stdout): the matches, in the order of the text
RECURSIVE FindIter(_)
FindIter(text) ==
    IF text = <<>> THEN <<>>
    ELSE (IF PatternMatches(Head(text)) THEN <<Head(text)>> ELSE <<>>)
             \o FindIter(Tail(text))

\* tuple(map(float, match.group(3).split(",")))
ParseXyz(s) == [k \in 1..Len(Split(s)) |-> ParseFloat(Split(s)[k])]

\* some float() of the match raises ValueError
MatchRaises(m) ==
    \/ ~ParseFloat(m.dv).ok
    \/ ~ParseFloat(m.rmsd).ok
    \/ \E k \in 1..Len(ParseXyz(m.xyz)) : ~ParseXyz(m.xyz)[k].ok

XyzOf(m) == [k \in 1..Len(ParseXyz(m.xyz)) |-> ParseXyz(m.xyz)[k].v]

\* if len(peak_coords) == max_peaks: ... break
CapReached(n, cap) == n = cap

\* the lines the coot run can print
LinePeak1 == [idx |-> <<"1">>, dv |-> <<"1","0",".","0">>, rmsd |-> <<"5",".","0">>,
              xyz |-> <<"1",".","0",","," ","2",".","0",","," ","3",".","0">>]
LinePeak2 == [idx |-> <<"2">>, dv |-> <<"8",".","0">>, rmsd |-> <<"4",".","0">>,
              xyz |-> <<"4",".","0",","," ","5",".","0",","," ","6",".","0">>]
LinePeak3 == [idx |-> <<"3">>, dv |-> <<"9",".","5">>, rmsd |-> <<"4",".","5">>,
              xyz |-> <<"-","1",".","0",",","2",",","-","3",".","5">>]
LineNegDv == [idx |-> <<"4">>, dv |-> <<"-","5",".","0">>, rmsd |-> <<"3",".","0">>,
              xyz |-> <<"0",".","0",",","0",".","0",",","0",".","0">>]
LineBadDv == [idx |-> <<"5">>, dv |-> <<"1",".","2",".","3">>, rmsd |-> <<"2",".","0">>,
              xyz |-> <<"7",".","0",",","7",".","0",",","7",".","0">>]
LineBadXyz == [idx |-> <<"6">>, dv |-> <<"6",".","0">>, rmsd |-> <<"2",".","0">>,
               xyz |-> <<"7",".","0",",",",","7",".","0">>]
LineNoise == [idx |-> <<>>, dv |-> <<>>, rmsd |-> <<>>, xyz |-> <<>>]

Lines == {LinePeak1, LinePeak2, LinePeak3, LineNegDv, LineBadDv, LineBadXyz, LineNoise}

RECURSIVE SeqsUpTo(_, _)
SeqsUpTo(S, n) ==
    IF n = 0 THEN {<<>>}
    ELSE LET shorter == SeqsUpTo(S, n - 1)
         IN  shorter \cup {Append(s, e) : s \in {t \in shorter : Len(t) = n - 1}, e \in S}

Texts == SeqsUpTo(Lines, MaxLines)
Caps  == (0 - 1)..MaxCap

PeaksIdle ==
    /\ stdout = <<>> /\ max_peaks = 0 /\ pk_i = 0
    /\ peak_coords = <<>> /\ electron_densities = <<>> /\ rmsds = <<>>
    /\ pk_ret = None

PeaksResult ==
    [kind |-> "return", peak_coords |-> peak_coords,
     electron_densities |-> electron_densities, rmsds |-> rmsds]

PeaksReturnTo == IF caller = "map" THEN "map_write" ELSE "done"

\* one pass of the loop body that appends a peak
PeakAppend ==
    /\ pc = "pk_loop"
    /\ pk_i < Len(FindIter(stdout))
    /\ ~CapReached(Len(peak_coords), max_peaks)
    /\ LET m == FindIter(stdout)[pk_i + 1]
       IN  /\ ~MatchRaises(m)
           /\ electron_densities' = Append(electron_densities, ParseFloat(m.dv).v)
           /\ rmsds' = Append(rmsds, ParseFloat(m.rmsd).v)
           /\ peak_coords' = Append(peak_coords, XyzOf(m))
    /\ pk_i' = pk_i + 1
    /\ UNCHANGED <<pc, caller, stdout, max_peaks, pk_ret>>
    /\ UNCHANGED <<pdbVars, mapVars, colsVars, scaleVars>>
    /\ UNCHANGED extraVars

\* a float() of the loop body raises: the exception leaves the function
PeakRaise ==
    /\ pc = "pk_loop"
    /\ pk_i < Len(FindIter(stdout))
    /\ ~CapReached(Len(peak_coords), max_peaks)
    /\ MatchRaises(FindIter(stdout)[pk_i + 1])
    /\ pk_ret' = [kind |-> "ValueError"]
    /\ pc' = "raised"
    /\ UNCHANGED <<caller, stdout, max_peaks, pk_i, peak_coords, electron_densities, rmsds>>
    /\ UNCHANGED <<pdbVars, mapVars, colsVars, scaleVars>>
    /\ UNCHANGED extraVars

\* the cap is met with a match still to come: warn, break, return
PeakBreak ==
    /\ pc = "pk_loop"
    /\ pk_i < Len(FindIter(stdout))
    /\ CapReached(Len(peak_coords), max_peaks)
    /\ pk_ret' = PeaksResult
    /\ pc' = PeaksReturnTo
    /\ UNCHANGED <<caller, stdout, max_peaks, pk_i, peak_coords, electron_densities, rmsds>>
    /\ UNCHANGED <<pdbVars, mapVars, colsVars, scaleVars>>
    /\ UNCHANGED extraVars

\* the matches are exhausted: return
PeakReturn ==
    /\ pc = "pk_loop"
    /\ pk_i = Len(FindIter(stdout))
    /\ pk_ret' = PeaksResult
    /\ pc' = PeaksReturnTo
    /\ UNCHANGED <<caller, stdout, max_peaks, pk_i, peak_coords, electron_densities, rmsds>>
    /\ UNCHANGED <<pdbVars, mapVars, colsVars, scaleVars>>
    /\ UNCHANGED extraVars

(***************************************************************************)
(* are_pdbs_similar.                                                       *)
(***************************************************************************)
RelCellLength == 1      \* tolerances["rel_cell_length"], in hundredths
AbsCellAngle  == 1      \* tolerances["abs_cell_angle"]
AbsCoordDiff  == 5      \* tolerances["abs_coord_diff"], in Angstrom

Abs(a) == IF a < 0 THEN 0 - a ELSE a
Max(a, b) == IF a < b THEN b ELSE a

\* sym_1.is_similar_symmetry(sym_2, relative_length_tolerance, absolute_angle_tolerance):
\* the cells agree within the tolerances and the space groups are equal
IsSimilarSymmetry(s1, s2) ==
    /\ 100 * Min(s1.a, s2.a) >= (100 - RelCellLength) * Max(s1.a, s2.a)
    /\ Abs(s1.alpha - s2.alpha) <= AbsCellAngle
    /\ s1.sg = s2.sg

\* the square of the distance between xyz_1 and xyz_2
Dist2(p, q) ==
    (p[1] - q[1]) * (p[1] - q[1]) + (p[2] - q[2]) * (p[2] - q[2])
        + (p[3] - q[3]) * (p[3] - q[3])

\* the tolerance itself taken as too far
CoordsTooFar_AtTolerance(p, q) == Dist2(p, q) >= AbsCoordDiff * AbsCoordDiff

\* if diff > tolerances["abs_coord_diff"], on the squares
CoordsTooFar(p, q) == Dist2(p, q) > AbsCoordDiff * AbsCoordDiff

\* zip(coords_1, coords_2)
Zip(c1, c2) == [k \in 1..Min(Len(c1), Len(c2)) |-> <<c1[k], c2[k]>>]

SymBase == [sg |-> "P1", a |-> 100, alpha |-> 90]
Syms == {SymBase,
         [sg |-> "P1", a |-> 101, alpha |-> 91],
         [sg |-> "P1", a |-> 102, alpha |-> 90],
         [sg |-> "P1", a |-> 100, alpha |-> 92],
         [sg |-> "P21", a |-> 100, alpha |-> 90]}
Coords == {<<0, 0, 0>>, <<3, 4, 0>>, <<3, 4, 1>>}
AtomNames == {"CA", "ZN"}

\* what read_pdb can return: names and coordinates of the same atoms
Models(syms, names) ==
    {[sym |-> s, atoms |-> [k \in 1..Len(al) |-> al[k][1]],
      coords |-> [k \in 1..Len(al) |-> al[k][2]]] :
        s \in syms, al \in SeqsUpTo(names \X Coords, MaxAtoms)}

NoModel == [sym |-> SymBase, atoms |-> <<>>, coords |-> <<>>]

PdbIdle ==
    /\ pdb_1 = NoModel /\ pdb_2 = NoModel /\ pdb_i = 0
    /\ pdb_ret = None /\ pdb_log = <<>>

PdbReturnTo == IF caller = "map" THEN "map_pdb_done" ELSE "done"

\* the symmetries differ: return False at once
PdbSymFail ==
    /\ pc = "pdb_start"
    /\ ~IsSimilarSymmetry(pdb_1.sym, pdb_2.sym)
    /\ pdb_log' = Append(pdb_log, "symmetry")
    /\ pdb_ret' = [kind |-> "return", value |-> FALSE]
    /\ pc' = PdbReturnTo
    /\ UNCHANGED <<caller, pdb_1, pdb_2, pdb_i>>
    /\ UNCHANGED <<peaksVars, mapVars, colsVars, scaleVars>>
    /\ UNCHANGED extraVars

\* the symmetries agree: a difference of the atom names is logged, no more
PdbSymOk ==
    /\ pc = "pdb_start"
    /\ IsSimilarSymmetry(pdb_1.sym, pdb_2.sym)
    /\ pdb_log' = IF pdb_1.atoms # pdb_2.atoms THEN Append(pdb_log, "atoms") ELSE pdb_log
    /\ pc' = "pdb_loop"
    /\ UNCHANGED <<caller, pdb_1, pdb_2, pdb_i, pdb_ret>>
    /\ UNCHANGED <<peaksVars, mapVars, colsVars, scaleVars>>
    /\ UNCHANGED extraVars

\* one pass of the coordinate loop within the tolerance
PdbCompare ==
    /\ pc = "pdb_loop"
    /\ pdb_i < Len(Zip(pdb_1.coords, pdb_2.coords))
    /\ LET pair == Zip(pdb_1.coords, pdb_2.coords)[pdb_i + 1]
       IN  ~CoordsTooFar(pair[1], pair[2])
    /\ pdb_i' = pdb_i + 1
    /\ UNCHANGED <<pc, caller, pdb_1, pdb_2, pdb_ret, pdb_log>>
    /\ UNCHANGED <<peaksVars, mapVars, colsVars, scaleVars>>
    /\ UNCHANGED extraVars

\* one pass of the coordinate loop beyond the tolerance: return False
PdbCoordFail ==
    /\ pc = "pdb_loop"
    /\ pdb_i < Len(Zip(pdb_1.coords, pdb_2.coords))
    /\ LET pair == Zip(pdb_1.coords, pdb_2.coords)[pdb_i + 1]
       IN  CoordsTooFar(pair[1], pair[2])
    /\ pdb_i' = pdb_i + 1
    /\ pdb_log' = Append(pdb_log, "coords")
    /\ pdb_ret' = [kind |-> "return", value |-> FALSE]
    /\ pc' = PdbReturnTo
    /\ UNCHANGED <<caller, pdb_1, pdb_2>>
    /\ UNCHANGED <<peaksVars, mapVars, colsVars, scaleVars>>
    /\ UNCHANGED extraVars

\* the loop is over: return True
PdbReturnTrue ==
    /\ pc = "pdb_loop"
    /\ pdb_i = Len(Zip(pdb_1.coords, pdb_2.coords))
    /\ pdb_ret' = [kind |-> "return", value |-> TRUE]
    /\ pc' = PdbReturnTo
    /\ UNCHANGED <<caller, pdb_1, pdb_2, pdb_i, pdb_log>>
    /\ UNCHANGED <<peaksVars, mapVars, colsVars, scaleVars>>
    /\ UNCHANGED extraVars

(***************************************************************************)
(* calc_double_diff_maps and the coot run of                               *)
(* make_double_diff_map_and_get_peaks.                                     *)
(***************************************************************************)
\* only the first of the two files is looked at
FirstMissing_AboveOnly(above_is_file, below_is_file) ==
    IF ~above_is_file THEN "AnoDe map above" ELSE "none"

\* the for loop over ("AnoDe map above", pha_above), ("AnoDe map below", pha_below):
\* the role of the first file that is not a file
FirstMissing(above_is_file, below_is_file) ==
    IF ~above_is_file THEN "AnoDe map above"
    ELSE IF ~below_is_file THEN "AnoDe map below"
    ELSE "none"

MapIdle ==
    /\ pha_above = TRUE /\ pha_below = TRUE
    /\ map_tools = <<>> /\ map_files = {} /\ map_ret = None /\ map_log = <<>>

\* an anomalous map is missing: log which, return False
MapInputMissing ==
    /\ pc = "map_start"
    /\ FirstMissing(pha_above, pha_below) # "none"
    /\ map_log' = Append(map_log, FirstMissing(pha_above, pha_below))
    /\ map_ret' = [kind |-> "return", value |-> FALSE]
    /\ pc' = "done"
    /\ UNCHANGED <<caller, pha_above, pha_below, map_tools, map_files>>
    /\ UNCHANGED <<peaksVars, pdbVars, colsVars, scaleVars>>
    /\ UNCHANGED extraVars

\* both are there: call are_pdbs_similar
MapCheckPdbs ==
    /\ pc = "map_start"
    /\ FirstMissing(pha_above, pha_below) = "none"
    /\ caller' = "map"
    /\ pc' = "pdb_start"
    /\ UNCHANGED <<peaksVars, pdbVars, mapVars, colsVars, scaleVars>>
    /\ UNCHANGED extraVars

\* the models differ: return False
MapPdbsDiffer ==
    /\ pc = "map_pdb_done"
    /\ ~pdb_ret.value
    /\ map_log' = Append(map_log, "PDB files are not similar enough")
    /\ map_ret' = [kind |-> "return", value |-> FALSE]
    /\ pc' = "done"
    /\ UNCHANGED <<caller, pha_above, pha_below, map_tools, map_files>>
    /\ UNCHANGED <<peaksVars, pdbVars, colsVars, scaleVars>>
    /\ UNCHANGED extraVars

\* the models agree: copy the three inputs into output_dir and call
\* make_double_diff_map_and_get_peaks
MapCopyInputs ==
    /\ pc = "map_pdb_done"
    /\ pdb_ret.value
    /\ map_files' = map_files \cup {"final.pdb", "above.pha", "below.pha"}
    /\ pc' = "pk_start"
    /\ UNCHANGED <<caller, pha_above, pha_below, map_tools, map_ret, map_log>>
    /\ UNCHANGED <<peaksVars, pdbVars, colsVars, scaleVars>>
    /\ UNCHANGED extraVars

\* write coot_diff_map.py, run coot on it, keep its output in metal_id.log
CootRun ==
    /\ pc = "pk_start"
    /\ \E text \in Texts : stdout' = text
    /\ map_tools' = Append(map_tools, "coot coot_diff_map.py")
    /\ map_files' = map_files \cup {"coot_diff_map.py", "diff.map", "metal_id.log"}
    /\ pc' = "pk_loop"
    /\ UNCHANGED <<caller, max_peaks, pk_i, peak_coords, electron_densities, rmsds, pk_ret>>
    /\ UNCHANGED <<pha_above, pha_below, map_ret, map_log>>
    /\ UNCHANGED <<pdbVars, colsVars, scaleVars>>
    /\ UNCHANGED extraVars

\* zip the three lists and write found_peaks.dat
MapWritePeaks ==
    /\ pc = "map_write"
    /\ map_files' = map_files \cup {"found_peaks.dat"}
    /\ pc' = "map_centre"
    /\ UNCHANGED <<caller, pha_above, pha_below, map_tools, map_ret, map_log>>
    /\ UNCHANGED <<peaksVars, pdbVars, colsVars, scaleVars>>
    /\ UNCHANGED extraVars

\* find_protein_centre: run find-blobs; the assert fails when its report has
\* no mass centre line
MapFindCentre ==
    /\ pc = "map_centre"
    /\ map_tools' = Append(map_tools, "find-blobs")
    /\ \E found \in BOOLEAN :
          IF found
          THEN pc' = "map_render" /\ map_ret' = map_ret
          ELSE pc' = "raised" /\ map_ret' = [kind |-> "AssertionError"]
    /\ UNCHANGED <<caller, pha_above, pha_below, map_files, map_log>>
    /\ UNCHANGED <<peaksVars, pdbVars, colsVars, scaleVars>>
    /\ UNCHANGED extraVars

\* the render commands of the peaks, one after the other
RenderCommands(n) == [k \in 1..n |-> "render"]

\* render_diff_map_peaks: write and run coot_render.py, then convert every
\* peak_<n>.r3d; calc_double_diff_maps ends without a return value
MapRender ==
    /\ pc = "map_render"
    /\ map_tools' = Append(map_tools, "coot coot_render.py")
                        \o RenderCommands(Len(peak_coords))
    /\ map_files' = map_files \cup {"coot_render.py"}
                        \cup (IF peak_coords = <<>> THEN {} ELSE {"peak_n.r3d", "peak_n.png"})
    /\ map_ret' = [kind |-> "return_none"]
    /\ pc' = "done"
    /\ UNCHANGED <<caller, pha_above, pha_below, map_log>>
    /\ UNCHANGED <<peaksVars, pdbVars, colsVars, scaleVars>>
    /\ UNCHANGED extraVars

(***************************************************************************)
(* find_cols_from_type.  A dataset is the sequence of its columns, each    *)
(* with a type and a label.                                                *)
(***************************************************************************)
ColumnTypes(obj)  == [k \in 1..Len(obj) |-> obj[k].type]
ColumnLabels(obj) == [k \in 1..Len(obj) |-> obj[k].label]

InSeq(x, s) == \E k \in 1..Len(s) : s[k] = x

\* indices = [_index for _index, _value in enumerate(col_types) if _value == type]
Indices(col_types, type) == {k \in 1..Len(col_types) : col_types[k] = type}

\* the last match instead of the first
FirstIndex_Last(indices) == CHOOSE k \in indices : \A j \in indices : k >= j

\* indices[0]
FirstIndex(indices) == CHOOSE k \in indices : \A j \in indices : k <= j

find_cols_from_type(obj, type) ==
    LET col_types == ColumnTypes(obj)
        col_labs_ == ColumnLabels(obj)
    IN  IF ~InSeq(type, col_types) THEN None
        ELSE LET col_lab     == col_labs_[FirstIndex(Indices(col_types, type))]
                 sig_col_lab == "SIG" \o col_lab
             IN  IF ~InSeq(sig_col_lab, col_labs_) THEN None
                 ELSE [kind |-> "pair", col |-> col_lab, sig |-> sig_col_lab]

Col(t, l) == [type |-> t, label |-> l]

ColPool == {Col("F", "F"), Col("Q", "SIGF"), Col("F", "FP"), Col("J", "IMEAN"),
            Col("Q", "SIGIMEAN"), Col("D", "DANO"), Col("Q", "SIGDANO")}
ColTypes == {"F", "J", "D"}

ColsIdle == fc_obj = <<>> /\ fc_type = "F" /\ fc_ret = None

\* a call of find_cols_from_type
FindCols ==
    /\ pc = "fc_start"
    /\ fc_ret' = find_cols_from_type(fc_obj, fc_type)
    /\ pc' = "done"
    /\ UNCHANGED <<caller, fc_obj, fc_type>>
    /\ UNCHANGED <<peaksVars, pdbVars, mapVars, scaleVars>>
    /\ UNCHANGED extraVars

(***************************************************************************)
(* ccp4_command and the files of scaling_dir.  A file holds the columns    *)
(* of its dataset and a tag telling where its data come from.  A tool that *)
(* fails leaves no output file; its failure shows in no return value.      *)
(***************************************************************************)
Exists(files, path) == path \in DOMAIN files

File(cols, data) == [cols |-> cols, data |-> data]

Write(files, path, file) == (path :> file) @@ files

Invocation(tool, hklin, hklout, marker) ==
    [tool |-> tool, hklin |-> hklin, hklout |-> hklout, marker |-> marker]

\* the names scale_data and calc_amplitudes derive from a stem
Reindexed(stem)      == stem \o "_reindexed"
\* truncate writes over the file it reads
Amplit_InPlace(stem) == stem
Amplit(stem)         == stem \o "_amplit"
Combined(stem)       == stem \o "_combined"
CombinedScaled(stem) == stem \o "_combined_scaled"
Scaled(stem)         == stem \o "_scaled"

\* labout F=F SIGF=SIGF: truncate adds the amplitudes to the columns it read
TruncateOut(cols) == cols \o <<Col("F", "F"), Col("Q", "SIGF")>>

\* truncate is run whatever the columns
NeedsAmplitudes_Always(mtz_obj) == TRUE

\* if "F" not in mtz_obj.column_types()
NeedsAmplitudes(mtz_obj) == ~InSeq("F", ColumnTypes(mtz_obj))

\* the error find_cols_from_type logs when it returns None
FindColsError(obj, type, file) ==
    IF ~InSeq(type, ColumnTypes(obj))
    THEN "Could not find " \o type \o " data column in " \o file
    ELSE "Could not find SIG"
             \o ColumnLabels(obj)[FirstIndex(Indices(ColumnTypes(obj), type))]
             \o " data in " \o file

(***************************************************************************)
(* calc_amplitudes(mtz_obj, mtz_file, output_dir) on the files `files`;    *)
(* tool_ok tells whether truncate, if run, writes its output.  The result  *)
(* holds the returned pair or the exception, the files afterwards, the     *)
(* commands run and the errors logged.                                     *)
(***************************************************************************)
calc_amplitudes(mtz_obj, mtz_file, files, tool_ok) ==
    IF NeedsAmplitudes(mtz_obj)
    THEN LET cols == find_cols_from_type(mtz_obj, "J")
         IN  IF cols = None
             THEN \* _col_lab, _sig_col_lab = None
                  [kind |-> "TypeError", obj |-> mtz_obj, file |-> mtz_file,
                   files |-> files, ran |-> <<>>,
                   logged |-> <<FindColsError(mtz_obj, "J", mtz_file)>>]
             ELSE LET amplit_file == Amplit(mtz_file)
                      after == IF tool_ok /\ Exists(files, mtz_file)
                               THEN Write(files, amplit_file,
                                          File(TruncateOut(files[mtz_file].cols),
                                               "truncate(" \o files[mtz_file].data \o ")"))
                               ELSE files
                      ran   == <<Invocation("truncate", <<mtz_file>>, amplit_file, FALSE)>>
                  IN  IF Exists(after, amplit_file)
                      THEN [kind |-> "return", obj |-> after[amplit_file].cols,
                            file |-> amplit_file, files |-> after, ran |-> ran,
                            logged |-> <<>>]
                      ELSE \* mtz.object(str(amplit_file)) finds no file
                           [kind |-> "IOError", obj |-> mtz_obj, file |-> mtz_file,
                            files |-> after, ran |-> ran, logged |-> <<>>]
    ELSE [kind |-> "return", obj |-> mtz_obj, file |-> mtz_file,
          files |-> files, ran |-> <<>>, logged |-> <<>>]

(***************************************************************************)
(* scale_data.                                                             *)
(***************************************************************************)
NoFile == [dir |-> "", stem |-> "", cols |-> <<>>]

ScaleIdle ==
    /\ in_above = NoFile /\ in_below = NoFile
    /\ fs = <<>> /\ tool_log = <<>>
    /\ mtz_above = "" /\ mtz_below = "" /\ obj_above = <<>> /\ obj_below = <<>>
    /\ col_labs = <<>> /\ sc_k = 0 /\ sc_ret = None /\ sc_log = <<>>

\* for input_file in [mtz_above, mtz_below]: shutil.copy(input_file, scaling_dir)
CopyInputs(above, below) ==
    Write(Write(<<>>, above.stem, File(above.cols, "above")),
          below.stem, File(below.cols, "below"))

\* the marker is not looked for
IncompatibleSymmetries_Ignored(pointless_log) == FALSE

\* if "Incompatible symmetries" in pointless_log
IncompatibleSymmetries(pointless_log) == pointless_log.marker

\* the anomalous difference is not resolved
ColParams_NoDano ==
    <<[val |-> "F_nat", sigval |-> "SIGF_nat", side |-> "below", type |-> "F"],
      [val |-> "F_der", sigval |-> "SIGF_der", side |-> "above", type |-> "F"]>>

\* col_params: the keys, the side and the type of the three resolutions
ColParams ==
    <<[val |-> "F_nat", sigval |-> "SIGF_nat", side |-> "below", type |-> "F"],
      [val |-> "F_der", sigval |-> "SIGF_der", side |-> "above", type |-> "F"],
      [val |-> "DANO_der", sigval |-> "SIGDANO_der", side |-> "above", type |-> "D"]>>

\* mkdir scaling_dir, copy the inputs, name the copies
ScCopy ==
    /\ pc = "sc_start"
    /\ fs' = CopyInputs(in_above, in_below)
    /\ mtz_above' = in_above.stem
    /\ mtz_below' = in_below.stem
    /\ pc' = "sc_pointless"
    /\ UNCHANGED <<caller, in_above, in_below, tool_log, obj_above, obj_below,
                   col_labs, sc_k, sc_ret, sc_log>>
    /\ UNCHANGED <<peaksVars, pdbVars, mapVars, colsVars>>
    /\ UNCHANGED extraVars

\* run pointless; return False on the marker, else go on with its output.
\* A run that reports the marker writes no hklout.
ScPointless ==
    /\ pc = "sc_pointless"
    /\ \E marker \in BOOLEAN, tool_ok \in BOOLEAN :
         LET hklout == Reindexed(mtz_above)
             pointless_log == [marker |-> marker]
         IN  /\ marker => ~tool_ok
             /\ tool_log' = Append(tool_log,
                    Invocation("pointless", <<mtz_above, mtz_below>>, hklout, marker))
             /\ fs' = IF tool_ok
                      THEN Write(fs, hklout, File(fs[mtz_above].cols,
                                     "pointless(" \o fs[mtz_above].data \o ")"))
                      ELSE fs
             /\ IF IncompatibleSymmetries(pointless_log)
                THEN /\ sc_log' = Append(sc_log, "mtz files have incompatible symmetry")
                     /\ sc_ret' = [kind |-> "return_false"]
                     /\ pc' = "done"
                     /\ UNCHANGED mtz_above
                ELSE /\ mtz_above' = hklout
                     /\ pc' = "sc_read"
                     /\ UNCHANGED <<sc_ret, sc_log>>
    /\ UNCHANGED <<caller, in_above, in_below, mtz_below, obj_above, obj_below,
                   col_labs, sc_k>>
    /\ UNCHANGED <<peaksVars, pdbVars, mapVars, colsVars>>
    /\ UNCHANGED extraVars

\* obj_below = mtz.object(str(mtz_below)); obj_above = mtz.object(str(mtz_above))
ScRead ==
    /\ pc = "sc_read"
    /\ IF Exists(fs, mtz_below) /\ Exists(fs, mtz_above)
       THEN /\ obj_below' = fs[mtz_below].cols
            /\ obj_above' = fs[mtz_above].cols
            /\ pc' = "sc_amp_below"
            /\ UNCHANGED sc_ret
       ELSE /\ sc_ret' = [kind |-> "IOError"]
            /\ pc' = "raised"
            /\ UNCHANGED <<obj_above, obj_below>>
    /\ UNCHANGED <<caller, in_above, in_below, fs, tool_log, mtz_above, mtz_below,
                   col_labs, sc_k, sc_log>>
    /\ UNCHANGED <<peaksVars, pdbVars, mapVars, colsVars>>
    /\ UNCHANGED extraVars

\* obj_below, mtz_below = calc_amplitudes(obj_below, mtz_below, scaling_dir)
ScAmplitBelow ==
    /\ pc = "sc_amp_below"
    /\ \E tool_ok \in BOOLEAN :
         LET r == calc_amplitudes(obj_below, mtz_below, fs, tool_ok)
         IN  /\ fs' = r.files
             /\ tool_log' = tool_log \o r.ran
             /\ sc_log' = sc_log \o r.logged
             /\ IF r.kind = "return"
                THEN /\ obj_below' = r.obj /\ mtz_below' = r.file
                     /\ pc' = "sc_amp_above"
                     /\ UNCHANGED sc_ret
                ELSE /\ sc_ret' = [kind |-> r.kind]
                     /\ pc' = "raised"
                     /\ UNCHANGED <<obj_below, mtz_below>>
    /\ UNCHANGED <<caller, in_above, in_below, mtz_above, obj_above, col_labs, sc_k>>
    /\ UNCHANGED <<peaksVars, pdbVars, mapVars, colsVars>>
    /\ UNCHANGED extraVars

\* obj_above, mtz_above = calc_amplitudes(obj_above, mtz_above, scaling_dir)
ScAmplitAbove ==
    /\ pc = "sc_amp_above"
    /\ \E tool_ok \in BOOLEAN :
         LET r == calc_amplitudes(obj_above, mtz_above, fs, tool_ok)
         IN  /\ fs' = r.files
             /\ tool_log' = tool_log \o r.ran
             /\ sc_log' = sc_log \o r.logged
             /\ IF r.kind = "return"
                THEN /\ obj_above' = r.obj /\ mtz_above' = r.file
                     /\ pc' = "sc_resolve"
                     /\ UNCHANGED sc_ret
                ELSE /\ sc_ret' = [kind |-> r.kind]
                     /\ pc' = "raised"
                     /\ UNCHANGED <<obj_above, mtz_above>>
    /\ UNCHANGED <<caller, in_above, in_below, mtz_below, obj_below, col_labs, sc_k>>
    /\ UNCHANGED <<peaksVars, pdbVars, mapVars, colsVars>>
    /\ UNCHANGED extraVars

ParamObj(p)  == IF p.side = "below" THEN obj_below ELSE obj_above
ParamFile(p) == IF p.side = "below" THEN mtz_below ELSE mtz_above

\* one pass of the loop over col_params: the columns are found
ScResolve ==
    /\ pc = "sc_resolve"
    /\ sc_k < Len(ColParams)
    /\ LET p == ColParams[sc_k + 1]
           r == find_cols_from_type(ParamObj(p), p.type)
       IN  /\ r # None
           /\ col_labs' = (p.val :> r.col) @@ (p.sigval :> r.sig) @@ col_labs
    /\ sc_k' = sc_k + 1
    /\ UNCHANGED <<pc, caller, in_above, in_below, fs, tool_log, mtz_above, mtz_below,
                   obj_above, obj_below, sc_ret, sc_log>>
    /\ UNCHANGED <<peaksVars, pdbVars, mapVars, colsVars>>
    /\ UNCHANGED extraVars

\* one pass of the loop over col_params: the TypeError is caught, return False
ScResolveFail ==
    /\ pc = "sc_resolve"
    /\ sc_k < Len(ColParams)
    /\ LET p == ColParams[sc_k + 1]
       IN  /\ find_cols_from_type(ParamObj(p), p.type) = None
           /\ sc_log' = sc_log \o <<FindColsError(ParamObj(p), p.type, ParamFile(p)),
                                    p.val \o " and/or " \o p.sigval \o " missing from "
                                        \o ParamFile(p)>>
    /\ sc_ret' = [kind |-> "return_false"]
    /\ pc' = "done"
    /\ UNCHANGED <<caller, in_above, in_below, fs, tool_log, mtz_above, mtz_below,
                   obj_above, obj_below, col_labs, sc_k>>
    /\ UNCHANGED <<peaksVars, pdbVars, mapVars, colsVars>>
    /\ UNCHANGED extraVars

\* a tool that reads hklin and writes what it makes of it to hklout
RunTool(files, tool, hklin, hklout, tool_ok) ==
    IF tool_ok /\ \A k \in 1..Len(hklin) : Exists(files, hklin[k])
    THEN Write(files, hklout,
               File(files[hklin[1]].cols, tool \o "(" \o files[hklin[1]].data \o ")"))
    ELSE files

\* cad: add the reference columns of mtz_below to mtz_above
ScCad ==
    /\ pc = "sc_resolve"
    /\ sc_k = Len(ColParams)
    /\ \E tool_ok \in BOOLEAN :
         LET mtz_combi == Combined(mtz_above)
         IN  /\ tool_log' = Append(tool_log,
                    Invocation("cad", <<mtz_above, mtz_below>>, mtz_combi, FALSE))
             /\ fs' = RunTool(fs, "cad", <<mtz_above, mtz_below>>, mtz_combi, tool_ok)
    /\ pc' = "sc_scaleit"
    /\ UNCHANGED <<caller, in_above, in_below, mtz_above, mtz_below, obj_above, obj_below,
                   col_labs, sc_k, sc_ret, sc_log>>
    /\ UNCHANGED <<peaksVars, pdbVars, mapVars, colsVars>>
    /\ UNCHANGED extraVars

\* scaleit on the combined file
ScScaleit ==
    /\ pc = "sc_scaleit"
    /\ \E tool_ok \in BOOLEAN :
         LET mtz_combi == Combined(mtz_above)
             mtz_combined_scaled == CombinedScaled(mtz_above)
         IN  /\ tool_log' = Append(tool_log,
                    Invocation("scaleit", <<mtz_combi>>, mtz_combined_scaled, FALSE))
             /\ fs' = RunTool(fs, "scaleit", <<mtz_combi>>, mtz_combined_scaled, tool_ok)
    /\ pc' = "sc_mtzutils"
    /\ UNCHANGED <<caller, in_above, in_below, mtz_above, mtz_below, obj_above, obj_below,
                   col_labs, sc_k, sc_ret, sc_log>>
    /\ UNCHANGED <<peaksVars, pdbVars, mapVars, colsVars>>
    /\ UNCHANGED extraVars

\* mtzutils drops the reference columns; return mtz_scaled, mtz_below
ScMtzutils ==
    /\ pc = "sc_mtzutils"
    /\ \E tool_ok \in BOOLEAN :
         LET mtz_combined_scaled == CombinedScaled(mtz_above)
             mtz_scaled == Scaled(mtz_above)
         IN  /\ tool_log' = Append(tool_log,
                    Invocation("mtzutils", <<mtz_combined_scaled>>, mtz_scaled, FALSE))
             /\ fs' = RunTool(fs, "mtzutils", <<mtz_combined_scaled>>, mtz_scaled, tool_ok)
             /\ sc_ret' = [kind |-> "return_pair", scaled |-> mtz_scaled, below |-> mtz_below]
    /\ pc' = "done"
    /\ UNCHANGED <<caller, in_above, in_below, mtz_above, mtz_below, obj_above, obj_below,
                   col_labs, sc_k, sc_log>>
    /\ UNCHANGED <<peaksVars, pdbVars, mapVars, colsVars>>
    /\ UNCHANGED extraVars

(***************************************************************************)
(* Output directory: metal_id.py lines 78 to 81 and                        *)
(* ensure_unique_directory.  Several runs of the script share one file     *)
(* system; each Path.exists() and each Path.mkdir() is one system call,    *)
(* and the runs interleave between the calls.                              *)
(***************************************************************************)
MaxRuns == 2
MaxExisting == 2

Runs == 1..MaxRuns

\* the --output argument, as Path splits it into stem and suffix
OutputBases == {[stem |-> "out", suffix |-> ""], [stem |-> "out", suffix |-> ".d"]}

PathName(path) == path.stem \o path.suffix

\* path.with_name(f"{path.stem}_{counter}{path.suffix}")
WithCounter(path, counter) ==
    path.stem \o "_" \o ToString(counter) \o path.suffix

\* Path.mkdir(parents=True), exist_ok left False: FileExistsError if the path is there
MkdirFails_ExistOk(new_path, existing) == FALSE

MkdirFails(new_path, existing) == new_path \in existing

otherThanDir ==
    <<pc, caller, peaksVars, pdbVars, mapVars, colsVars, scaleVars, quatVars, mainVars>>

\* if output_dir.exists(): the path is taken, enter ensure_unique_directory
\* (counter = 1, new_path = path)
RunExistsTaken(r) ==
    /\ run_pc[r] = "test"
    /\ run_path[r].new_path \in dirs
    /\ run_pc' = [run_pc EXCEPT ![r] = "loop"]
    /\ run_counter' = [run_counter EXCEPT ![r] = 1]
    /\ UNCHANGED <<dirs, run_path>>
    /\ UNCHANGED otherThanDir

\* if output_dir.exists(): the path is free, go on to mkdir
RunExistsFree(r) ==
    /\ run_pc[r] = "test"
    /\ run_path[r].new_path \notin dirs
    /\ run_pc' = [run_pc EXCEPT ![r] = "mkdir"]
    /\ UNCHANGED <<dirs, run_path, run_counter>>
    /\ UNCHANGED otherThanDir

\* while new_path.exists(): new_path = ...; counter += 1
RunLoopNext(r) ==
    /\ run_pc[r] = "loop"
    /\ run_path[r].new_path \in dirs
    /\ run_path' = [run_path EXCEPT ![r].new_path =
                        WithCounter(run_path[r].path, run_counter[r])]
    /\ run_counter' = [run_counter EXCEPT ![r] = run_counter[r] + 1]
    /\ UNCHANGED <<dirs, run_pc>>
    /\ UNCHANGED otherThanDir

\* the loop test fails: return new_path
RunLoopReturn(r) ==
    /\ run_pc[r] = "loop"
    /\ run_path[r].new_path \notin dirs
    /\ run_pc' = [run_pc EXCEPT ![r] = "mkdir"]
    /\ UNCHANGED <<dirs, run_path, run_counter>>
    /\ UNCHANGED otherThanDir

\* output_dir.mkdir(parents=True) creates the directory; the run goes on to
\* write its log and its stage outputs under it
RunMkdir(r) ==
    /\ run_pc[r] = "mkdir"
    /\ ~MkdirFails(run_path[r].new_path, dirs)
    /\ dirs' = dirs \cup {run_path[r].new_path}
    /\ run_pc' = [run_pc EXCEPT ![r] = "running"]
    /\ UNCHANGED <<run_path, run_counter>>
    /\ UNCHANGED otherThanDir

\* output_dir.mkdir(parents=True) raises FileExistsError: the run ends
RunMkdirRaise(r) ==
    /\ run_pc[r] = "mkdir"
    /\ MkdirFails(run_path[r].new_path, dirs)
    /\ run_pc' = [run_pc EXCEPT ![r] = "raised"]
    /\ UNCHANGED <<dirs, run_path, run_counter>>
    /\ UNCHANGED otherThanDir

(***************************************************************************)
(* view_as_quat.  Coordinates are whole numbers; the floats the function   *)
(* computes are fixed-point numbers with FixedOne standing for 1.0, and    *)
(* math.sqrt is the integer square root of the scaled operand.  A float    *)
(* division by zero raises ZeroDivisionError.                              *)
(***************************************************************************)
MaxCoord == 1
FixedOne == 1000

\* the largest root whose square fits the integers of the checker
MaxRoot == 46340

RECURSIVE SqrtBetween(_, _, _)
SqrtBetween(n, lo, hi) ==
    IF lo >= hi THEN lo
    ELSE LET mid == (lo + hi + 1) \div 2
         IN  IF mid * mid <= n THEN SqrtBetween(n, mid, hi)
                               ELSE SqrtBetween(n, lo, mid - 1)

\* math.sqrt of a fixed-point square
Sqrt(n) == SqrtBetween(n, 0, Min(n, MaxRoot))

\* a / b of two fixed-point numbers, rounded towards zero
FixedDiv(a, b) ==
    IF a >= 0 THEN (a * FixedOne) \div b ELSE 0 - (((0 - a) * FixedOne) \div b)

Point(x, y, z) == [kind |-> "point", xyz |-> <<x, y, z>>]

Points == {Point(x, y, z) : x \in (0 - MaxCoord)..MaxCoord,
                            y \in (0 - MaxCoord)..MaxCoord,
                            z \in (0 - MaxCoord)..MaxCoord}

IdentityQuat == <<0, 0, 0, FixedOne>>

\* d = (p2[0] - p1[0], p2[1] - p1[1], p2[2] - p1[2])
Direction(p1, p2) ==
    <<(p2.xyz[1] - p1.xyz[1]) * FixedOne,
      (p2.xyz[2] - p1.xyz[2]) * FixedOne,
      (p2.xyz[3] - p1.xyz[3]) * FixedOne>>

\* math.sqrt(d[0] ** 2 + d[1] ** 2 + d[2] ** 2), and the same for the quaternion
Length(v) ==
    LET sq(i) == v[i] * v[i]
    IN  IF Len(v) = 3 THEN Sqrt(sq(1) + sq(2) + sq(3))
                      ELSE Sqrt(sq(1) + sq(2) + sq(3) + sq(4))

\* prod = (d[1], -d[0], 0); quat = (prod[0], prod[1], prod[2], 1 - d[2])
RawQuat(d) == <<d[2], 0 - d[1], 0, FixedOne - d[3]>>

view_as_quat(p1, p2) ==
    IF p1 = None \/ p2 = None
    THEN [kind |-> "return", quat |-> IdentityQuat]
    ELSE LET d0 == Direction(p1, p2)
             length == Length(d0)
         IN  IF length = 0
             THEN [kind |-> "ZeroDivisionError", quat |-> <<>>]
             ELSE LET d == <<FixedDiv(d0[1], length), FixedDiv(d0[2], length),
                             FixedDiv(d0[3], length)>>
                      quat == RawQuat(d)
                      qlen == Length(quat)
                  IN  IF qlen = 0
                      THEN [kind |-> "ZeroDivisionError", quat |-> <<>>]
                      ELSE [kind |-> "return",
                            quat |-> <<FixedDiv(quat[1], qlen), FixedDiv(quat[2], qlen),
                                       FixedDiv(quat[3], qlen), FixedDiv(quat[4], qlen)>>]

otherThanQuat ==
    <<caller, peaksVars, pdbVars, mapVars, colsVars, scaleVars, dirVars, mainVars>>

\* a call that returns a quaternion
QuatReturn ==
    /\ pc = "vq_start"
    /\ view_as_quat(vq_p1, vq_p2).kind = "return"
    /\ vq_ret' = view_as_quat(vq_p1, vq_p2)
    /\ pc' = "done"
    /\ UNCHANGED <<vq_p1, vq_p2>>
    /\ UNCHANGED otherThanQuat

\* a call that ends in an exception
QuatRaise ==
    /\ pc = "vq_start"
    /\ view_as_quat(vq_p1, vq_p2).kind # "return"
    /\ vq_ret' = view_as_quat(vq_p1, vq_p2)
    /\ pc' = "raised"
    /\ UNCHANGED <<vq_p1, vq_p2>>
    /\ UNCHANGED otherThanQuat

(***************************************************************************)
(* The top-level script, metal_id.py.  Its statements run in file order:   *)
(* parse_args (59), the reads of args (61 to 67), the output directory     *)
(* (78 to 81), scale_data (111), run_dimple on the above and the below     *)
(* data (124, 132), calc_double_diff_maps (139).  The parser defines no    *)
(* fcolumn argument, so the read args.fcolumn at line 67 raises            *)
(* AttributeError in every run whose command line parses; no later         *)
(* statement is reached.                                                   *)
(***************************************************************************)
MaxPdbs == 2

\* what PDBFileOrCode makes of one pdb argument
PdbArgKinds == {"file", "code", "invalid"}

\* command lines: do the two mtz arguments name files, what is each pdb argument
CommandLines ==
    [mtz_above : BOOLEAN, mtz_below : BOOLEAN,
     pdb : SeqsUpTo(PdbArgKinds, MaxPdbs), max_peaks : Caps]

\* type=mtz_exists raises ArgumentTypeError, type=PDBFileOrCode raises ValueError:
\* argparse reports either and exits
ParseFails(args) ==
    \/ ~args.mtz_above
    \/ ~args.mtz_below
    \/ InSeq("invalid", args.pdb)

\* the attributes the parser gives the namespace: one per add_argument
ParsedAttributes == {"mtz_above", "mtz_below", "pdb", "output", "peak_threshold", "max_peaks"}

\* the attributes the script reads from args, in order
AttributesRead ==
    <<"mtz_above", "mtz_below", "pdb", "output", "peak_threshold", "max_peaks", "fcolumn">>

\* the first read of an attribute the namespace lacks, 0 if there is none
FirstMissingAttribute ==
    LET missing == {i \in 1..Len(AttributesRead) : AttributesRead[i] \notin ParsedAttributes}
    IN  IF missing = {} THEN 0 ELSE CHOOSE i \in missing : \A j \in missing : i <= j

otherThanMain ==
    <<caller, peaksVars, pdbVars, mapVars, colsVars, scaleVars, dirVars, quatVars>>

\* parser.parse_args() rejects the command line: SystemExit
MainParseExit ==
    /\ pc = "main_parse"
    /\ ParseFails(argv)
    /\ main_ret' = [kind |-> "SystemExit", at |-> 59]
    /\ pc' = "exited"
    /\ UNCHANGED <<argv, dimple_log>>
    /\ UNCHANGED otherThanMain

\* parser.parse_args() returns the namespace
MainParsed ==
    /\ pc = "main_parse"
    /\ ~ParseFails(argv)
    /\ pc' = "main_args"
    /\ UNCHANGED <<argv, dimple_log, main_ret>>
    /\ UNCHANGED otherThanMain

\* lines 61 to 67: a read of an attribute the namespace lacks raises AttributeError
MainArgsRaise ==
    /\ pc = "main_args"
    /\ FirstMissingAttribute # 0
    /\ main_ret' = [kind |-> "AttributeError", at |-> 60 + FirstMissingAttribute]
    /\ pc' = "raised"
    /\ UNCHANGED <<argv, dimple_log>>
    /\ UNCHANGED otherThanMain

(***************************************************************************)
(* The parts of the program that are at rest while another is checked.     *)
(***************************************************************************)
DirIdle == dirs = {} /\ run_pc = <<>> /\ run_path = <<>> /\ run_counter = <<>>

QuatIdle == vq_p1 = None /\ vq_p2 = None /\ vq_ret = None

MainIdle == argv = None /\ dimple_log = <<>> /\ main_ret = None

ExtraIdle == DirIdle /\ QuatIdle /\ MainIdle

(***************************************************************************)
(* Specifications, one per entry point.                                    *)
(***************************************************************************)
\* make_double_diff_map_and_get_peaks called with any cap
InitPeaks ==
    /\ pc = "pk_start" /\ caller = "none"
    /\ stdout = <<>> /\ max_peaks \in Caps /\ pk_i = 0
    /\ peak_coords = <<>> /\ electron_densities = <<>> /\ rmsds = <<>>
    /\ pk_ret = None
    /\ PdbIdle /\ MapIdle /\ ColsIdle /\ ScaleIdle
    /\ ExtraIdle

NextPeaks == CootRun \/ PeakAppend \/ PeakRaise \/ PeakBreak \/ PeakReturn

SpecPeaks == InitPeaks /\ [][NextPeaks]_vars

\* are_pdbs_similar called on any two models
InitPdb ==
    /\ pc = "pdb_start" /\ caller = "none"
    /\ pdb_1 \in Models({SymBase}, {"CA"})
    /\ pdb_2 \in Models(Syms, AtomNames)
    /\ pdb_i = 0 /\ pdb_ret = None /\ pdb_log = <<>>
    /\ PeaksIdle /\ MapIdle /\ ColsIdle /\ ScaleIdle
    /\ ExtraIdle

NextPdb == PdbSymFail \/ PdbSymOk \/ PdbCompare \/ PdbCoordFail \/ PdbReturnTrue

SpecPdb == InitPdb /\ [][NextPdb]_vars

\* calc_double_diff_maps
MapModels == {m \in Models(Syms, {"CA"}) : Len(m.atoms) = 1 /\ m.sym.alpha = 90}

InitMap ==
    /\ pc = "map_start" /\ caller = "none"
    /\ pha_above \in BOOLEAN /\ pha_below \in BOOLEAN
    /\ map_tools = <<>> /\ map_files = {} /\ map_ret = None /\ map_log = <<>>
    /\ pdb_1 = [sym |-> SymBase, atoms |-> <<"CA">>, coords |-> << <<0, 0, 0>> >>]
    /\ pdb_2 \in MapModels
    /\ pdb_i = 0 /\ pdb_ret = None /\ pdb_log = <<>>
    /\ stdout = <<>> /\ max_peaks \in Caps /\ pk_i = 0
    /\ peak_coords = <<>> /\ electron_densities = <<>> /\ rmsds = <<>>
    /\ pk_ret = None
    /\ ColsIdle /\ ScaleIdle
    /\ ExtraIdle

NextMap ==
    \/ MapInputMissing \/ MapCheckPdbs \/ MapPdbsDiffer \/ MapCopyInputs
    \/ MapWritePeaks \/ MapFindCentre \/ MapRender
    \/ NextPdb \/ NextPeaks

SpecMap == InitMap /\ [][NextMap]_vars

\* find_cols_from_type called on any dataset
InitCols ==
    /\ pc = "fc_start" /\ caller = "none"
    /\ fc_obj \in SeqsUpTo(ColPool, MaxCols) /\ fc_type \in ColTypes /\ fc_ret = None
    /\ PeaksIdle /\ PdbIdle /\ MapIdle /\ ScaleIdle
    /\ ExtraIdle

NextCols == FindCols

SpecCols == InitCols /\ [][NextCols]_vars

\* scale_data called on two input files
ColH == Col("H", "H")
ScaleDatasets ==
    {<<ColH, Col("F", "F"), Col("Q", "SIGF"), Col("D", "DANO"), Col("Q", "SIGDANO")>>,
     <<ColH, Col("J", "IMEAN"), Col("Q", "SIGIMEAN"), Col("D", "DANO"), Col("Q", "SIGDANO")>>,
     <<ColH, Col("J", "IMEAN"), Col("D", "DANO"), Col("Q", "SIGDANO")>>,
     <<ColH, Col("D", "DANO"), Col("Q", "SIGDANO")>>,
     <<ColH, Col("F", "F"), Col("D", "DANO"), Col("Q", "SIGDANO")>>,
     <<ColH, Col("F", "F"), Col("Q", "SIGF")>>}
AboveStems == {"a"}
BelowStems == {"b", "a", "a_reindexed", "a_reindexed_amplit"}

InitScale ==
    /\ pc = "sc_start" /\ caller = "none"
    /\ in_above \in [dir : {"d1"}, stem : AboveStems, cols : ScaleDatasets]
    /\ in_below \in [dir : {"d2"}, stem : BelowStems, cols : ScaleDatasets]
    /\ fs = <<>> /\ tool_log = <<>>
    /\ mtz_above = "" /\ mtz_below = "" /\ obj_above = <<>> /\ obj_below = <<>>
    /\ col_labs = <<>> /\ sc_k = 0 /\ sc_ret = None /\ sc_log = <<>>
    /\ PeaksIdle /\ PdbIdle /\ MapIdle /\ ColsIdle
    /\ ExtraIdle

NextScale ==
    \/ ScCopy \/ ScPointless \/ ScRead \/ ScAmplitBelow \/ ScAmplitAbove
    \/ ScResolve \/ ScResolveFail \/ ScCad \/ ScScaleit \/ ScMtzutils

SpecScale == InitScale /\ [][NextScale]_vars

\* runs of the script started with the same --output, on a file system where
\* the base name and some of its numbered variants may already exist
InitDir ==
    /\ pc = "dirs" /\ caller = "none"
    /\ \E base \in OutputBases :
          /\ dirs \in SUBSET ({PathName(base)} \cup
                                {WithCounter(base, k) : k \in 1..MaxExisting})
          /\ run_path = [r \in Runs |-> [path |-> base, new_path |-> PathName(base)]]
    /\ run_pc = [r \in Runs |-> "test"]
    /\ run_counter = [r \in Runs |-> 0]
    /\ PeaksIdle /\ PdbIdle /\ MapIdle /\ ColsIdle /\ ScaleIdle
    /\ QuatIdle /\ MainIdle

NextDir ==
    \E r \in Runs :
        \/ RunExistsTaken(r) \/ RunExistsFree(r)
        \/ RunLoopNext(r) \/ RunLoopReturn(r)
        \/ RunMkdir(r) \/ RunMkdirRaise(r)

SpecDir == InitDir /\ [][NextDir]_vars

\* view_as_quat called on any two arguments, each a point or None
InitQuat ==
    /\ pc = "vq_start" /\ caller = "none"
    /\ vq_p1 \in Points \cup {None} /\ vq_p2 \in Points \cup {None}
    /\ vq_ret = None
    /\ PeaksIdle /\ PdbIdle /\ MapIdle /\ ColsIdle /\ ScaleIdle
    /\ DirIdle /\ MainIdle

NextQuat == QuatReturn \/ QuatRaise

SpecQuat == InitQuat /\ [][NextQuat]_vars

\* the script run on any command line
InitMain ==
    /\ pc = "main_parse" /\ caller = "none"
    /\ argv \in CommandLines
    /\ dimple_log = <<>> /\ main_ret = None
    /\ PeaksIdle /\ PdbIdle /\ MapIdle /\ ColsIdle /\ ScaleIdle
    /\ DirIdle /\ QuatIdle

NextMain == MainParseExit \/ MainParsed \/ MainArgsRaise

SpecMain == InitMain /\ [][NextMain]_vars

(***************************************************************************)
(* Properties.                                                             *)
(***************************************************************************)
Returned == pk_ret.kind = "return"

\* C1: make_double_diff_map_and_get_peaks returns at most max_peaks peaks,
\* for every text and every integer max_peaks: each of the three lists it
\* returns is no longer than max_peaks (and empty when max_peaks is below
\* zero, the least any call can return).
C1_AtMostMaxPeaks ==
    Returned =>
        /\ Len(pk_ret.peak_coords) <= Max(max_peaks, 0)
        /\ Len(pk_ret.electron_densities) <= Max(max_peaks, 0)
        /\ Len(pk_ret.rmsds) <= Max(max_peaks, 0)

\* C2: the call returns exactly the first min(n, max_peaks) of the n matching
\* lines (none when that number is below zero), in the order of the text:
\* the i-th coordinate, density and score come from the i-th match, and the
\* three lists have the same length.
C2_FirstMatchesInOrder ==
    Returned =>
        LET matches == FindIter(stdout)
            kept    == Max(Min(Len(matches), max_peaks), 0)
        IN  /\ Len(pk_ret.peak_coords) = kept
            /\ Len(pk_ret.electron_densities) = kept
            /\ Len(pk_ret.rmsds) = kept
            /\ \A i \in 1..kept :
                  /\ pk_ret.electron_densities[i] = ParseFloat(matches[i].dv).v
                  /\ pk_ret.rmsds[i] = ParseFloat(matches[i].rmsd).v
                  /\ pk_ret.peak_coords[i] = XyzOf(matches[i])

ToolsOf(log) == [k \in 1..Len(log) |-> log[k].tool]

\* C3: when the output of pointless holds the incompatible-symmetry marker,
\* scale_data returns False and pointless is the last tool it has run.
C3_IncompatibleStops ==
    \A k \in 1..Len(tool_log) :
        (tool_log[k].tool = "pointless" /\ tool_log[k].marker) =>
            /\ k = Len(tool_log)
            /\ pc = "done"
            /\ sc_ret = [kind |-> "return_false"]

C3_Witness ==
    /\ pc = "done" /\ Len(tool_log) = 1
    /\ tool_log[1].tool = "pointless" /\ tool_log[1].marker
    /\ sc_ret.kind = "return_false"

\* C4: a failure of a stage of scale_data ends the call with the returned
\* False and never with an exception: when the amplitude stage finds no
\* amplitude column and cannot resolve the intensity columns, the call
\* returns False.
C4_FailureIsReturned ==
    (\E k \in 1..Len(sc_log) : sc_log[k] \in
        {FindColsError(cols, "J", f) : cols \in ScaleDatasets, f \in DOMAIN fs})
        => (pc = "done" /\ sc_ret = [kind |-> "return_false"])

\* C5: find_cols_from_type returns (L, "SIG" + L) for the label L of the
\* first column of the requested type exactly when there is such a column
\* and "SIG" + L is a label of the dataset; otherwise it returns None.
C5_FirstColumnWithSigma ==
    pc = "done" =>
        LET matching == {k \in 1..Len(fc_obj) : fc_obj[k].type = fc_type}
            first    == CHOOSE k \in matching : \A j \in 1..(k - 1) : j \notin matching
        IN  IF /\ matching # {}
               /\ \E j \in 1..Len(fc_obj) : fc_obj[j].label = "SIG" \o fc_obj[first].label
            THEN fc_ret = [kind |-> "pair", col |-> fc_obj[first].label,
                           sig |-> "SIG" \o fc_obj[first].label]
            ELSE fc_ret = None

C5_Witness ==
    /\ pc = "done" /\ fc_ret.kind = "pair"
    /\ Cardinality({k \in 1..Len(fc_obj) : fc_obj[k].type = fc_type}) = 2

HasAmplitudeColumn(obj) == \E k \in 1..Len(obj) : obj[k].type = "F"

\* what C6 asks of one successful calc_amplitudes call: given a dataset with
\* an amplitude column it hands back its arguments and runs nothing, and a
\* second call on what it returned hands that back and runs nothing
NoOpOnAmplitudes(obj, file, objAfter, fileAfter, logAfter, fsAfter) ==
    /\ HasAmplitudeColumn(obj) =>
          /\ objAfter = obj /\ fileAfter = file
          /\ logAfter = tool_log /\ fsAfter = fs
    /\ \A tool_ok \in BOOLEAN :
          LET again == calc_amplitudes(objAfter, fileAfter, fsAfter, tool_ok)
          IN  /\ again.kind = "return"
              /\ again.obj = objAfter /\ again.file = fileAfter
              /\ again.ran = <<>> /\ again.files = fsAfter

\* C6: calc_amplitudes on a dataset that has an amplitude column returns the
\* pair it was given and runs no tool, and calc_amplitudes on the result of
\* a successful call returns that result unchanged.
C6_AmplitudesIdempotent ==
    [][/\ (pc = "sc_amp_below" /\ pc' = "sc_amp_above") =>
             NoOpOnAmplitudes(obj_below, mtz_below, obj_below', mtz_below', tool_log', fs')
       /\ (pc = "sc_amp_above" /\ pc' = "sc_resolve") =>
             NoOpOnAmplitudes(obj_above, mtz_above, obj_above', mtz_above', tool_log', fs')
      ]_vars

C6_Witness ==
    /\ pc = "sc_resolve"
    /\ Cardinality({k \in 1..Len(tool_log) : tool_log[k].tool = "truncate"}) = 1
    /\ HasAmplitudeColumn(in_above.cols) /\ ~HasAmplitudeColumn(in_below.cols)

C8_MissingInputStopsAll ==
    (~pha_above \/ ~pha_below) =>
        /\ map_tools = <<>>
        /\ map_files = {}
        /\ pc \in {"map_start", "done"}
        /\ pc = "done" =>
              /\ map_ret = [kind |-> "return", value |-> FALSE]
              /\ map_log = <<IF ~pha_above THEN "AnoDe map above" ELSE "AnoDe map below">>

C8_Witness ==
    /\ pc = "done" /\ pha_above /\ ~pha_below
    /\ map_ret.kind = "return" /\ map_log = <<"AnoDe map below">>

Succeeded == sc_ret.kind = "return_pair"

OutputsOf(log) == {log[k].hklout : k \in 1..Len(log)}

\* C9 as stated, for the runs in which no tool writes to the name of the
\* copy of the below input: on success the first path is the output of the
\* cleanup stage and the second is the copy of the below input in
\* scaling_dir, which no tool of the run has written and which holds the
\* below input's data.
C9_BelowIsUntouchedCopy ==
    (Succeeded /\ in_below.stem \notin OutputsOf(tool_log)) =>
        /\ tool_log[Len(tool_log)].tool = "mtzutils"
        /\ sc_ret.scaled = tool_log[Len(tool_log)].hklout
        /\ sc_ret.below = in_below.stem
        /\ sc_ret.below \notin OutputsOf(tool_log)
        /\ Exists(fs, sc_ret.below) /\ fs[sc_ret.below].data = "below"

\* the truncate runs that read the copy of the below input
BelowConversions ==
    {k \in 1..Len(tool_log) :
        tool_log[k].tool = "truncate" /\ tool_log[k].hklin = <<in_below.stem>>}

\* C9 amended: on success the first path is the output of the cleanup stage
\* and the second is the below-side file the merge stage read: the copy of
\* the below input when no amplitude conversion read it, else the output
\* <stem>_amplit of that conversion; a second path no tool has written is
\* the copy and holds the below input's data.
C9_BelowIsCopyOrConversion ==
    Succeeded =>
        /\ tool_log[Len(tool_log)].tool = "mtzutils"
        /\ sc_ret.scaled = tool_log[Len(tool_log)].hklout
        /\ \E k \in 1..Len(tool_log) :
              tool_log[k].tool = "cad" /\ tool_log[k].hklin[2] = sc_ret.below
        /\ sc_ret.below = IF BelowConversions = {} THEN in_below.stem
                          ELSE in_below.stem \o "_amplit"
        /\ BelowConversions # {} => sc_ret.below \in OutputsOf(tool_log)
        /\ sc_ret.below \notin OutputsOf(tool_log) =>
              /\ sc_ret.below = in_below.stem
              /\ Exists(fs, sc_ret.below) /\ fs[sc_ret.below].data = "below"

C9_Witness ==
    /\ Succeeded
    /\ BelowConversions # {}
    /\ sc_ret.below = "b_amplit"
    /\ fs["b_amplit"].data = "truncate(below)"

Rank(tool) ==
    CASE tool = "pointless" -> 1 [] tool = "truncate" -> 2 [] tool = "cad" -> 3
      [] tool = "scaleit" -> 4 [] tool = "mtzutils" -> 5

Entries(tool) == {k \in 1..Len(tool_log) : tool_log[k].tool = tool}

\* C10: scale_data runs pointless, truncate (at most twice, below first),
\* cad, scaleit and mtzutils in this order, pointless, cad, scaleit and
\* mtzutils at most once; cad runs only after the three column resolutions;
\* cad reads the current above and below files, scaleit reads the output of
\* cad, mtzutils that of scaleit, and the scaled path returned is the output
\* of mtzutils.
C10_ToolOrderAndChain ==
    /\ tool_log # <<>> => tool_log[1].tool = "pointless"
    /\ \A i, j \in 1..Len(tool_log) :
          i < j => \/ Rank(tool_log[i].tool) < Rank(tool_log[j].tool)
                   \/ tool_log[i].tool = "truncate" /\ tool_log[j].tool = "truncate"
    /\ Cardinality(Entries("truncate")) <= 2
    /\ \A i, j \in Entries("truncate") :
          i < j => /\ tool_log[i].hklin = <<in_below.stem>>
                   /\ tool_log[j].hklin = <<in_above.stem \o "_reindexed">>
    /\ \A c \in Entries("cad") :
          /\ {"F_nat", "SIGF_nat", "F_der", "SIGF_der", "DANO_der", "SIGDANO_der"}
                 \subseteq DOMAIN col_labs
          /\ tool_log[c].hklin = <<mtz_above, mtz_below>>
    /\ \A s \in Entries("scaleit") :
          s > 1 /\ tool_log[s - 1].tool = "cad"
                /\ tool_log[s].hklin = <<tool_log[s - 1].hklout>>
    /\ \A m \in Entries("mtzutils") :
          m > 1 /\ tool_log[m - 1].tool = "scaleit"
                /\ tool_log[m].hklin = <<tool_log[m - 1].hklout>>
    /\ Succeeded <=> Entries("mtzutils") # {}
    /\ Succeeded => sc_ret.scaled = tool_log[Len(tool_log)].hklout

C10_Witness ==
    /\ Succeeded
    /\ ToolsOf(tool_log) =
          <<"pointless", "truncate", "truncate", "cad", "scaleit", "mtzutils">>

\* C11: of the runs started with the same output base name, no two get past
\* the creation of the output directory with the same directory: a run that
\* is writing its outputs owns a directory no other such run uses.
C11_NoSharedOutputDir ==
    \A r1, r2 \in DOMAIN run_pc :
        (r1 # r2 /\ run_pc[r1] = "running" /\ run_pc[r2] = "running")
            => run_path[r1].new_path # run_path[r2].new_path

\* two runs are past the creation, one of them on a numbered variant it had
\* to look for
C11_Witness ==
    \E r1, r2 \in DOMAIN run_pc :
        /\ r1 # r2
        /\ run_pc[r1] = "running" /\ run_pc[r2] = "running"
        /\ run_path[r1].path = run_path[r2].path
        /\ run_counter[r2] > 1
        /\ run_path[r1].new_path \in dirs /\ run_path[r2].new_path \in dirs

\* a run lost the race for a name another run created first
C11_RaceLost ==
    \E r1, r2 \in DOMAIN run_pc :
        /\ run_pc[r1] = "running" /\ run_pc[r2] = "raised"
        /\ run_path[r1].new_path = run_path[r2].new_path

\* the squared norm of a fixed-point quaternion is 1.0 within one percent
IsUnit(quat) ==
    LET n2 == quat[1] * quat[1] + quat[2] * quat[2]
                + quat[3] * quat[3] + quat[4] * quat[4]
    IN  Abs(n2 - FixedOne * FixedOne) * 100 <= FixedOne * FixedOne

QuatCalled == pc \in {"done", "raised"} /\ vq_ret # None

\* C12: every call of view_as_quat returns; on two defined points, whatever
\* they are, the quaternion returned has norm 1, and when either argument is
\* None it is the identity quaternion (0, 0, 0, 1).
C12_AlwaysUnitQuaternion ==
    QuatCalled =>
        /\ vq_ret.kind = "return"
        /\ IsUnit(vq_ret.quat)
        /\ (vq_p1 = None \/ vq_p2 = None) => vq_ret.quat = IdentityQuat

\* what does hold of the function: a quaternion that is returned has norm 1,
\* it is the identity when an argument is None, and the call raises exactly
\* when the two points coincide or the second lies straight along +z
QuatUnitWhenReturned ==
    QuatCalled =>
        /\ vq_ret.kind = "return" => IsUnit(vq_ret.quat)
        /\ (vq_p1 = None \/ vq_p2 = None) => vq_ret = [kind |-> "return", quat |-> IdentityQuat]
        /\ (vq_p1 # None /\ vq_p2 # None) =>
              (vq_ret.kind = "ZeroDivisionError" <=>
                  /\ vq_p1.xyz[1] = vq_p2.xyz[1]
                  /\ vq_p1.xyz[2] = vq_p2.xyz[2]
                  /\ vq_p2.xyz[3] >= vq_p1.xyz[3])

\* the script has ended on a command line the parser accepts
MainEnded == pc \in {"done", "raised"} /\ argv # None /\ ~ParseFails(argv)

\* C13: in a run of the script the stages occur, in the order refinement of
\* both datasets, model-compatibility check, scaling pipeline, peak
\* extraction, rendering: a run that has ended has refined both datasets,
\* and no scaling tool, compatibility check or map tool has been invoked
\* before the stages that precede it.
C13_StagesInOrder ==
    /\ MainEnded => Len(dimple_log) = 2
    /\ pdb_log # <<>> => Len(dimple_log) = 2
    /\ tool_log # <<>> => (Len(dimple_log) = 2 /\ pdb_ret # None)
    /\ map_tools # <<>> => tool_log # <<>>

\* what does hold of the script: no run invokes any stage
MainRunsNoStage ==
    /\ dimple_log = <<>> /\ tool_log = <<>> /\ map_tools = <<>> /\ pdb_ret = None
    /\ MainEnded => main_ret = [kind |-> "AttributeError", at |-> 67]

\* a file of scaling_dir and a caller's input file, as full paths
WorkspacePath(stem) == [dir |-> "scaling", stem |-> stem]

InputPath(in) == [dir |-> in.dir, stem |-> in.stem]

\* the two inputs are distinct existing files
DistinctInputs == InputPath(in_above) # InputPath(in_below)

\* C14: for any two distinct input files, whatever their names, when
\* pointless is about to be invoked the above and the below path of
\* scaling_dir are different files, each holding its own input's content;
\* and no output path handed to a tool is the copy of the below input or
\* one of the caller's input files.
C14_WorkspaceIsolated ==
    DistinctInputs =>
        /\ pc = "sc_pointless" =>
              /\ mtz_above # mtz_below
              /\ Exists(fs, mtz_above) /\ fs[mtz_above].data = "above"
              /\ Exists(fs, mtz_below) /\ fs[mtz_below].data = "below"
        /\ \A p \in OutputsOf(tool_log) :
              /\ p # in_below.stem
              /\ WorkspacePath(p) \notin {InputPath(in_above), InputPath(in_below)}

\* the names a run derives from the above stem before the merge
DerivedFromAbove(stem) ==
    {stem, Reindexed(stem), Amplit(Reindexed(stem))}

\* what does hold of scale_data: the same, for inputs whose below stem is
\* none of the names derived from the above stem
WorkspaceIsolatedWhenNamesApart ==
    (DistinctInputs /\ in_below.stem \notin DerivedFromAbove(in_above.stem)) =>
        /\ pc = "sc_pointless" =>
              /\ mtz_above # mtz_below
              /\ fs[mtz_above].data = "above" /\ fs[mtz_below].data = "below"
        /\ \A p \in OutputsOf(tool_log) : p # in_below.stem

\* truncate, run on the reindexed above data, writes over the copy of the
\* below input
TruncateOverBelowCopy ==
    \E k \in 1..Len(tool_log) :
        /\ tool_log[k].tool = "truncate"
        /\ tool_log[k].hklout = in_below.stem
        /\ in_below.stem # in_above.stem

\* what does hold of calc_amplitudes in every run: on a dataset that has an
\* amplitude column it hands back its arguments and runs nothing
AmplitudesNoOpOnF ==
    [][/\ (pc = "sc_amp_below" /\ pc' = "sc_amp_above" /\ HasAmplitudeColumn(obj_below)) =>
             (obj_below' = obj_below /\ mtz_below' = mtz_below
                 /\ tool_log' = tool_log /\ fs' = fs)
       /\ (pc = "sc_amp_above" /\ pc' = "sc_resolve" /\ HasAmplitudeColumn(obj_above)) =>
             (obj_above' = obj_above /\ mtz_above' = mtz_above
                 /\ tool_log' = tool_log /\ fs' = fs)
      ]_vars

\* and, for a below stem that is none of the names derived from the above
\* stem, a second call on the result of a call is a no-op as well
AmplitudesIdempotentWhenNamesApart ==
    [][(in_below.stem \notin DerivedFromAbove(in_above.stem)) =>
          /\ (pc = "sc_amp_below" /\ pc' = "sc_amp_above") =>
                NoOpOnAmplitudes(obj_below, mtz_below, obj_below', mtz_below', tool_log', fs')
          /\ (pc = "sc_amp_above" /\ pc' = "sc_resolve") =>
                NoOpOnAmplitudes(obj_above, mtz_above, obj_above', mtz_above', tool_log', fs')
      ]_vars

====
